---- MODULE Spec2Model ----
(***************************************************************************)
(* Swift Scrolls: collect fandom data from four sources, merge it into a   *)
(* corpus, hand the corpus to the text generation step, split the          *)
(* generated text into (subject, body) and deliver it.                     *)
(*                                                                         *)
(* A Python str is modelled as a sequence of one-character strings; the    *)
(* str methods the code uses (strip, splitlines, lower, startswith, split, *)
(* join) are operators that compute what the method computes.              *)
(***************************************************************************)
EXTENDS Integers, Sequences, FiniteSets, TLC

VARIABLES
    entry,            \* how the program was started: which file, script or import
    config,           \* the contents of config.json
    env,              \* which credentials .env holds
    pc,               \* the statement the interpreter is at
    ext,              \* outcome of each external call made so far ("notcalled" before)
    reddit_data,      \* send_swift_scroll.py:48 / composer.py:79
    youtube_data,     \* send_swift_scroll.py:55
    official_data,    \* send_swift_scroll.py:58
    tumblr_data,      \* send_swift_scroll.py:61
    fandom_data,      \* send_swift_scroll.py:87 (combined_data in composer.py)
    compose_calls,    \* the arguments compose_email_from_data was called with
    full_email_text,  \* send_swift_scroll.py:90
    subject,          \* send_swift_scroll.py:93
    body,             \* send_swift_scroll.py:93
    bound,            \* the module-level names that are bound
    send_calls,       \* the (subject, body) pairs handed to send_swift_scroll_via_gmail
    printed,          \* the announcements printed so far
    raised,           \* the exception that ended the run, if any
    markup,           \* the parsed document handed to extract_snippets_from_html
    extracted,        \* the list extract_snippets_from_html returned
    source_text,      \* a text a source delivered: heading, paragraph, body, comment
    emitted           \* the snippets a collector made of source_text

vars == <<entry, config, env, pc, ext, reddit_data, youtube_data, official_data,
          tumblr_data, fandom_data, compose_calls, full_email_text, subject, body,
          bound, send_calls, printed, raised, markup, extracted, source_text,
          emitted>>

collectVars == <<reddit_data, youtube_data, official_data, tumblr_data>>
setupVars == <<entry, config, env>>
truncVars == <<source_text, emitted>>
extractVars == <<markup, extracted, truncVars>>

-----------------------------------------------------------------------------
(* Python str operations.                                                  *)

\* The characters str.strip() removes (the ASCII ones the model's texts use).
Whitespace == {" ", "\t", "\n", "\r", "\f"}

\* The characters str.splitlines() breaks a line at ("\r\n" counts once).
LineBreaks == {"\n", "\r", "\f"}

UpperAlpha == <<"A", "B", "C", "D", "E", "F", "G", "H", "I", "J", "K", "L", "M",
                "N", "O", "P", "Q", "R", "S", "T", "U", "V", "W", "X", "Y", "Z">>
LowerAlpha == <<"a", "b", "c", "d", "e", "f", "g", "h", "i", "j", "k", "l", "m",
                "n", "o", "p", "q", "r", "s", "t", "u", "v", "w", "x", "y", "z">>

lower_char(c) ==
    IF \E k \in 1..Len(UpperAlpha) : UpperAlpha[k] = c
    THEN LowerAlpha[CHOOSE k \in 1..Len(UpperAlpha) : UpperAlpha[k] = c]
    ELSE c

lower(s) == [k \in 1..Len(s) |-> lower_char(s[k])]

RECURSIVE lstrip(_)
lstrip(s) ==
    IF s # <<>> /\ Head(s) \in Whitespace THEN lstrip(Tail(s)) ELSE s

RECURSIVE rstrip(_)
rstrip(s) ==
    IF s # <<>> /\ s[Len(s)] \in Whitespace
    THEN rstrip(SubSeq(s, 1, Len(s) - 1))
    ELSE s

strip(s) == rstrip(lstrip(s))

startswith(s, prefix) ==
    /\ Len(s) >= Len(prefix)
    /\ SubSeq(s, 1, Len(prefix)) = prefix

RECURSIVE splitlines_from(_, _, _, _)
splitlines_from(s, i, cur, acc) ==
    IF i > Len(s)
    THEN (IF cur = <<>> THEN acc ELSE Append(acc, cur))
    ELSE IF s[i] = "\r" /\ i < Len(s) /\ s[i + 1] = "\n"
    THEN splitlines_from(s, i + 2, <<>>, Append(acc, cur))
    ELSE IF s[i] \in LineBreaks
    THEN splitlines_from(s, i + 1, <<>>, Append(acc, cur))
    ELSE splitlines_from(s, i + 1, Append(cur, s[i]), acc)

splitlines(s) == splitlines_from(s, 1, <<>>, <<>>)

\* sep.join(parts)
RECURSIVE join(_, _)
join(sep, parts) ==
    IF parts = <<>> THEN <<>>
    ELSE IF Len(parts) = 1 THEN parts[1]
    ELSE parts[1] \o sep \o join(sep, Tail(parts))

\* line.split(":", 1)[1]: what follows the first colon of a line that has one
RECURSIVE after_first_colon(_)
after_first_colon(line) ==
    IF line = <<>> THEN <<>>
    ELSE IF Head(line) = ":" THEN Tail(line)
    ELSE after_first_colon(Tail(line))

-----------------------------------------------------------------------------
(* send_swift_scroll.py: split_subject_and_body                            *)

SubjectMarker == <<"s", "u", "b", "j", "e", "c", "t", ":">>

\* "✨ Your Weekly Swift Scroll ✨" (the sparkles character written as U+2728)
DefaultSubject ==
    <<"U+2728", " ", "Y", "o", "u", "r", " ", "W", "e", "e", "k", "l", "y", " ",
      "S", "w", "i", "f", "t", " ", "S", "c", "r", "o", "l", "l", " ", "U+2728">>

line_matches_M(line) == startswith(line, SubjectMarker)

\* line 24: line.lower().startswith("subject:")
line_matches(line) == startswith(lower(line), SubjectMarker)

\* line 26: line.split(":", 1)[1].strip()
subject_of_line(line) == strip(after_first_colon(line))

\* lines 23-32: the for/else over enumerate(lines)
RECURSIVE scan_lines(_, _)
scan_lines(lines, i) ==
    IF i > Len(lines)
    THEN [subject |-> DefaultSubject, body_lines |-> lines]
    ELSE IF line_matches(lines[i])
    THEN [subject |-> subject_of_line(lines[i]),
          body_lines |-> SubSeq(lines, i + 1, Len(lines))]
    ELSE scan_lines(lines, i + 1)

\* line 19: full_text.strip().splitlines()
input_lines(full_text) == splitlines(strip(full_text))

body_of_lines_M(body_lines) == strip(join(<<>>, body_lines))

\* line 34: "\n".join(body_lines).strip()
body_of_lines(body_lines) == strip(join(<<"\n">>, body_lines))

split_subject_and_body(full_text) ==
    LET r == scan_lines(input_lines(full_text), 1)
    IN  <<r.subject, body_of_lines(r.body_lines)>>

-----------------------------------------------------------------------------
(* Snippet formatting shared by the collectors.                            *)

Ellipsis == <<".", ".", ".">>
BlankLine == <<"\n", "\n">>

\* the same cut with the marker counted inside the cap
truncate_M(text, cap) ==
    IF Len(text) > cap THEN SubSeq(text, 1, cap - 3) \o Ellipsis ELSE text

\* if len(text) > cap: text = text[:cap] + "..."
truncate(text, cap) ==
    IF Len(text) > cap THEN SubSeq(text, 1, cap) \o Ellipsis ELSE text

\* f"[{label} {kind}] {text}"
tagged(label, kind, text) == <<"[">> \o label \o kind \o text

HeadingTag == <<" ", "H", "E", "A", "D", "I", "N", "G", "]", " ">>
TextTag == <<" ", "T", "E", "X", "T", "]", " ">>
PostTag == <<" ", "P", "O", "S", "T", "]", " ">>
ErrorTag == <<" ", "E", "R", "R", "O", "R", "]", " ", "C", "o", "u", "l", "d", " ",
              "n", "o", "t", " ", "f", "e", "t", "c", "h", " ">>

OfficialLabel == <<"O", "F", "F", "I", "C", "I", "A", "L", " ", "S", "I", "T", "E">>
ShowgirlLabel == <<"S", "H", "O", "W", "G", "I", "R", "L">>
TumblrLabel == <<"T", "U", "M", "B", "L", "R">>

\* f"[{label} ERROR] Could not fetch {url}: {e}"
error_snippet(label, url, e) ==
    <<"[">> \o label \o ErrorTag \o url \o <<":", " ">> \o e

-----------------------------------------------------------------------------
(* collector_tumblr.py: extract_snippets_from_html.  The document is the   *)
(* parser's view of the markup: for each find_all the code makes, the      *)
(* get_text(separator=" ", strip=True) of the elements found, in document  *)
(* order.                                                                  *)

TumblrMinLen == 40
TumblrPostCap == 500
TumblrTextCap == 400
TumblrStop == 30
TumblrEnough == 10

\* lines 32-40: the loop over post_containers
RECURSIVE tumblr_post_loop(_, _, _, _)
tumblr_post_loop(containers, i, label, snippets) ==
    IF i > Len(containers) THEN snippets
    ELSE LET text == strip(containers[i]) IN
         IF text = <<>> \/ Len(text) < TumblrMinLen
         THEN tumblr_post_loop(containers, i + 1, label, snippets)
         ELSE LET more == Append(snippets,
                                 tagged(label, PostTag, truncate(text, TumblrPostCap)))
              IN  IF Len(more) > TumblrStop THEN more
                  ELSE tumblr_post_loop(containers, i + 1, label, more)

\* lines 44-52: the loop over soup.find_all("p")
RECURSIVE tumblr_text_loop(_, _, _, _)
tumblr_text_loop(paragraphs, i, label, snippets) ==
    IF i > Len(paragraphs) THEN snippets
    ELSE LET text == strip(paragraphs[i]) IN
         IF text = <<>> \/ Len(text) < TumblrMinLen
         THEN tumblr_text_loop(paragraphs, i + 1, label, snippets)
         ELSE LET more == Append(snippets,
                                 tagged(label, TextTag, truncate(text, TumblrTextCap)))
              IN  IF Len(more) > TumblrStop THEN more
                  ELSE tumblr_text_loop(paragraphs, i + 1, label, more)

tumblr_needs_fallback_M(snippets) == snippets = <<>>

\* line 43: if len(snippets) < 10
tumblr_needs_fallback(snippets) == Len(snippets) < TumblrEnough

tumblr_extract_snippets_from_html(doc, label) ==
    LET posts == tumblr_post_loop(doc.containers, 1, label, <<>>)
    IN  IF tumblr_needs_fallback(posts)
        THEN tumblr_text_loop(doc.paragraphs, 1, label, posts)
        ELSE posts

-----------------------------------------------------------------------------
(* collector_site.py: extract_snippets_from_html                           *)

SiteHeadingMin == 5
SiteHeadingCap == 200
SiteMinLen == 40
SiteTextCap == 400
SiteStop == 40

\* lines 29-34: the loop over soup.find_all(["h1", "h2", "h3"])
RECURSIVE site_heading_loop(_, _, _, _)
site_heading_loop(headings, i, label, snippets) ==
    IF i > Len(headings) THEN snippets
    ELSE LET text == strip(headings[i]) IN
         IF text # <<>> /\ Len(text) > SiteHeadingMin
         THEN site_heading_loop(headings, i + 1, label,
                  Append(snippets,
                         tagged(label, HeadingTag, truncate(text, SiteHeadingCap))))
         ELSE site_heading_loop(headings, i + 1, label, snippets)

\* lines 37-47: the loop over soup.find_all("p")
RECURSIVE site_text_loop(_, _, _, _)
site_text_loop(paragraphs, i, label, snippets) ==
    IF i > Len(paragraphs) THEN snippets
    ELSE LET text == strip(paragraphs[i]) IN
         IF text = <<>> \/ Len(text) < SiteMinLen
         THEN site_text_loop(paragraphs, i + 1, label, snippets)
         ELSE LET more == Append(snippets,
                                 tagged(label, TextTag, truncate(text, SiteTextCap)))
              IN  IF Len(more) > SiteStop THEN more
                  ELSE site_text_loop(paragraphs, i + 1, label, more)

site_extract_snippets_from_html(doc, label) ==
    site_text_loop(doc.paragraphs, 1, label,
                   site_heading_loop(doc.headings, 1, label, <<>>))

-----------------------------------------------------------------------------
(* config.json, .env and the outside world.                                *)

MaxSubs == 2        \* subreddits configured at most
MaxVideos == 2      \* videos the search returns at most

\* config.get(key): a key that is absent reads as None
Absent == [present |-> FALSE, v |-> <<>>]
Value(v) == [present |-> TRUE, v |-> v]
\* Python truthiness of a config value: None and "" are falsy
Truthy(x) == x.present /\ x.v # <<>>

\* a text of n characters that names its kind and its position
Text(ch, k, n) ==
    [j \in 1..n |-> IF j = 1 THEN ch ELSE IF j = 2 THEN ToString(k) ELSE "x"]

SubName(k) == <<"s", ToString(k)>>
Subreddits(n) == [k \in 1..n |-> SubName(k)]

TaylorUrl == <<"h", ":", "/", "/", "t">>
ShowgirlUrl == <<"h", ":", "/", "/", "s">>
TumblrUrl == <<"h", ":", "/", "/", "b">>
ChannelId == <<"U", "C">>

Configs ==
    [subreddits : {Subreddits(n) : n \in 0..MaxSubs},
     youtube_channel_id : {Absent, Value(<<>>), Value(ChannelId)},
     taylor_official_site : {Absent, Value(TaylorUrl)},
     showgirl_site : {Absent, Value(ShowgirlUrl)},
     tumblr_url : {Absent, Value(TumblrUrl)}]

Envs == [reddit_credentials : BOOLEAN, youtube_api_key : BOOLEAN]

NoExc == [exc |-> "none", at |-> "none"]
Exc(kind, where) == [exc |-> kind, at |-> where]

NotCalled == "notcalled"
ExtInit ==
    [reddit |-> <<>>, yt_search |-> NotCalled, videos |-> <<>>, yt_comments |-> <<>>,
     taylor |-> NotCalled, showgirl |-> NotCalled, tumblr |-> NotCalled,
     openai |-> NotCalled, gmail |-> NotCalled]

-----------------------------------------------------------------------------
(* collector_reddit.py                                                     *)

DefaultMaxPosts == 30
MaxCommentsPerPost == 3
RedditBodyCap == 400

\* what subreddit.top(time_filter="week", limit=n) yields for a subreddit
RedditTop(sub, limit) ==
    LET all == <<[title |-> <<"T", "1">>, selftext |-> <<>>,
                  comments |-> <<<<"c", "1">>, <<" ", "c", "2", " ">>,
                                 <<"c", "3">>, <<"c", "4">>>>],
                 [title |-> <<"T", "2">>, selftext |-> <<" ", "b", "\n">>,
                  comments |-> <<>>]>>
    IN  SubSeq(all, 1, IF limit < Len(all) THEN limit ELSE Len(all))

\* line 59: max(1, max_posts // len(subreddits))
posts_per_sub(max_posts, n) ==
    IF max_posts \div n > 1 THEN max_posts \div n ELSE 1

\* lines 77-85: at most max_comments_per_post comment snippets
reddit_comment_snippets(sub, comments, max_comments) ==
    [i \in 1..(IF Len(comments) < max_comments THEN Len(comments) ELSE max_comments) |->
        <<"[", "C", "O", "M", "M", "E", "N", "T", " ", "i", "n", " ", "r", "/">>
        \o sub \o <<"]", " ">> \o truncate(strip(comments[i]), RedditBodyCap)]

\* lines 65-85: the posts of one subreddit
RECURSIVE reddit_post_loop(_, _, _, _, _)
reddit_post_loop(sub, posts, i, max_comments, snippets) ==
    IF i > Len(posts) THEN snippets
    ELSE reddit_post_loop(sub, posts, i + 1, max_comments,
            Append(snippets,
                   <<"[", "P", "O", "S", "T", " ", "i", "n", " ", "r", "/">>
                   \o sub \o <<"]", " ">> \o posts[i].title \o <<"\n">>
                   \o truncate(strip(posts[i].selftext), RedditBodyCap))
            \o reddit_comment_snippets(sub, posts[i].comments, max_comments))

\* lines 61-85 for the first n subreddits
RECURSIVE reddit_sub_loop(_, _, _, _, _)
reddit_sub_loop(subreddits, n, k, per_sub, snippets) ==
    IF k > n THEN snippets
    ELSE reddit_sub_loop(subreddits, n, k + 1, per_sub,
            reddit_post_loop(subreddits[k], RedditTop(subreddits[k], per_sub), 1,
                             MaxCommentsPerPost, snippets))

\* lines 30-31: raise ValueError unless all four credentials are set
reddit_credentials_ok(e) == e.reddit_credentials

\* collect_reddit_snippets, lines 52-88.  answered: how many of the listing
\* requests the source answers before one fails (all of them: no failure).
collect_reddit_snippets(subreddits, max_posts, e, answered) ==
    IF ~reddit_credentials_ok(e)
    THEN [exc |-> Exc("ValueError", "get_reddit_client"), out |-> <<>>, calls |-> <<>>]
    ELSE IF subreddits = <<>>
    THEN [exc |-> NoExc, out |-> <<>>, calls |-> <<>>]
    ELSE IF answered < Len(subreddits)
    THEN [exc |-> Exc("RequestException", "subreddit.top"), out |-> <<>>,
          calls |-> [k \in 1..(answered + 1) |-> IF k <= answered THEN "ok" ELSE "fail"]]
    ELSE [exc |-> NoExc,
          out |-> join(BlankLine,
                       reddit_sub_loop(subreddits, Len(subreddits), 1,
                                       posts_per_sub(max_posts, Len(subreddits)), <<>>)),
          calls |-> [k \in 1..Len(subreddits) |-> "ok"]]

-----------------------------------------------------------------------------
(* collector_youtube.py                                                    *)

YoutubeDescriptionCap == 500
YoutubeCommentCap == 400

\* What the search returns for a video and how its commentThreads request ends:
\*   "ok"       status 200 with one comment
\*   "disabled" a status other than 200 (comments disabled)
\*   "raise"    requests.get raises (network error, timeout)
\*   "noid"     the item carries no videoId
VideoKinds == {"ok", "disabled", "raise", "noid"}

RECURSIVE SeqsUpTo(_, _)
SeqsUpTo(S, n) ==
    IF n = 0 THEN {<<>>}
    ELSE LET shorter == SeqsUpTo(S, n - 1)
         IN  shorter \cup {Append(q, x) : q \in {r \in shorter : Len(r) = n - 1}, x \in S}

VideoLists == SeqsUpTo(VideoKinds, MaxVideos)

\* line 60: requests.get(url, params=params, timeout=30) is not guarded
comments_request_raises(kind) == kind = "raise"

\* lines 72-75: the text kept of one comment's textDisplay
comment_text(text_display) == truncate(strip(text_display), YoutubeCommentCap)

\* fetch_video_comments, lines 60-78, for a request that returned
fetch_video_comments(kind, i) ==
    IF kind # "ok" THEN <<>>
    ELSE <<comment_text(<<"k", ToString(i), " ">>)>>

YoutubeVideoTag == <<"[", "Y", "O", "U", "T", "U", "B", "E", " ", "V", "I", "D", "E", "O",
                     "]", " ">>
YoutubeCommentTag == <<"[", "Y", "O", "U", "T", "U", "B", "E", " ", "C", "O", "M", "M",
                       "E", "N", "T", "]", " ">>

\* lines 107-112: f"[YOUTUBE VIDEO] {title}\n{description}"
video_snippet(title, description) ==
    YoutubeVideoTag \o strip(title) \o <<"\n">>
    \o truncate(strip(description), YoutubeDescriptionCap)

\* lines 115-116: f"[YOUTUBE COMMENT] {c}" for each comment
comment_snippets(comments) ==
    [c \in 1..Len(comments) |-> YoutubeCommentTag \o comments[c]]

\* lines 101-116: the loop over items
RECURSIVE youtube_item_loop(_, _, _, _)
youtube_item_loop(items, i, snippets, calls) ==
    IF i > Len(items) THEN [exc |-> NoExc, snippets |-> snippets, calls |-> calls]
    ELSE IF items[i] = "noid" THEN youtube_item_loop(items, i + 1, snippets, calls)
    ELSE LET video == video_snippet(<<"v", ToString(i)>>, <<"d", " ">>)
         IN  IF comments_request_raises(items[i])
             THEN [exc |-> Exc("RequestException", "fetch_video_comments"),
                   snippets |-> Append(snippets, video),
                   calls |-> Append(calls, items[i])]
             ELSE youtube_item_loop(items, i + 1,
                      Append(snippets, video)
                      \o comment_snippets(fetch_video_comments(items[i], i)),
                      Append(calls, items[i]))

\* lines 18-21: raise ValueError when YOUTUBE_API_KEY is missing
youtube_key_ok(e) == e.youtube_api_key

\* collect_youtube_snippets, lines 87-118.  search: how the search request ends;
\* items: what it returns when it succeeds.
collect_youtube_snippets(cfg, e, search, items) ==
    IF ~youtube_key_ok(e)
    THEN [exc |-> Exc("ValueError", "get_youtube_api_key"), out |-> <<>>,
          search |-> NotCalled, calls |-> <<>>]
    ELSE IF ~Truthy(cfg.youtube_channel_id)
    THEN [exc |-> NoExc, out |-> <<>>, search |-> NotCalled, calls |-> <<>>]
    ELSE IF search # "ok"
    THEN [exc |-> Exc("RequestException", "fetch_channel_videos"), out |-> <<>>,
          search |-> search, calls |-> <<>>]
    ELSE LET r == youtube_item_loop(items, 1, <<>>, <<>>)
         IN  [exc |-> r.exc,
              out |-> IF r.exc = NoExc THEN join(BlankLine, r.snippets) ELSE <<>>,
              search |-> search, calls |-> r.calls]

-----------------------------------------------------------------------------
(* collector_site.py and collector_tumblr.py: the collectors               *)

\* How fetch_page(url) ends: the page is returned ("ok", "ok_empty": a page in
\* which nothing qualifies), requests.get raises ("timeout") or raise_for_status
\* raises ("http_error").
FetchOutcomes == {"ok", "ok_empty", "timeout", "http_error"}
FetchFailed(o) == o \in {"timeout", "http_error"}

ErrorText(o) ==
    IF o = "timeout" THEN <<"t", "i", "m", "e", "d", " ", "o", "u", "t">>
    ELSE <<"4", "0", "4">>

EmptyDoc == [headings |-> <<>>, paragraphs |-> <<>>, containers |-> <<>>]

\* the document a successful fetch returns
PageDoc(o) ==
    IF o = "ok"
    THEN [headings |-> <<Text("h", 1, SiteHeadingMin + 1)>>,
          paragraphs |-> <<Text("p", 1, SiteMinLen), Text("p", 2, SiteMinLen - 1)>>,
          containers |-> <<Text("c", 1, TumblrMinLen)>>]
    ELSE EmptyDoc

site_block_M(url, label, o, all_snippets) ==
    IF ~Truthy(url) THEN [exc |-> NoExc, snippets |-> all_snippets]
    ELSE IF FetchFailed(o)
    THEN [exc |-> Exc("RequestException", "fetch_page"), snippets |-> all_snippets]
    ELSE [exc |-> NoExc,
          snippets |-> all_snippets \o site_extract_snippets_from_html(PageDoc(o), label)]

\* collector_site.py lines 63-68 and 70-75: one "if url: try ... except Exception"
\* block of collect_official_site_snippets
site_block(url, label, o, all_snippets) ==
    IF ~Truthy(url) THEN [exc |-> NoExc, snippets |-> all_snippets]
    ELSE IF FetchFailed(o)
    THEN [exc |-> NoExc,
          snippets |-> Append(all_snippets, error_snippet(label, url.v, ErrorText(o)))]
    ELSE [exc |-> NoExc,
          snippets |-> all_snippets \o site_extract_snippets_from_html(PageDoc(o), label)]

\* collect_official_site_snippets, lines 56-77
collect_official_site_snippets(cfg, o1, o2) ==
    LET first == site_block(cfg.taylor_official_site, OfficialLabel, o1, <<>>)
        second == site_block(cfg.showgirl_site, ShowgirlLabel, o2, first.snippets)
    IN  IF first.exc # NoExc THEN [exc |-> first.exc, out |-> <<>>]
        ELSE IF second.exc # NoExc THEN [exc |-> second.exc, out |-> <<>>]
        ELSE [exc |-> NoExc, out |-> join(BlankLine, second.snippets)]

\* collect_tumblr_snippets, lines 62-76
collect_tumblr_snippets(cfg, o) ==
    IF ~Truthy(cfg.tumblr_url) THEN [exc |-> NoExc, out |-> <<>>]
    ELSE IF FetchFailed(o)
    THEN [exc |-> NoExc,
          out |-> join(BlankLine,
                       <<error_snippet(TumblrLabel, cfg.tumblr_url.v, ErrorText(o))>>)]
    ELSE [exc |-> NoExc,
          out |-> join(BlankLine,
                       tumblr_extract_snippets_from_html(PageDoc(o), TumblrLabel))]

-----------------------------------------------------------------------------
(* send_swift_scroll.py: build_fandom_data, lines 63-82 (and the same      *)
(* statements inline in composer.py, lines 95-113).                        *)

RedditHeader ==
    <<"=", "=", "=", " ", "R", "E", "D", "D", "I", "T", " ", "S", "N", "I", "P", "P",
      "E", "T", "S", " ", "=", "=", "=", "\n">>
YoutubeHeader ==
    <<"=", "=", "=", " ", "Y", "O", "U", "T", "U", "B", "E", " ", "S", "N", "I", "P",
      "P", "E", "T", "S", " ", "=", "=", "=", "\n">>
OfficialHeader ==
    <<"=", "=", "=", " ", "O", "F", "F", "I", "C", "I", "A", "L", " ", "S", "I", "T",
      "E", " ", "S", "N", "I", "P", "P", "E", "T", "S", " ", "=", "=", "=", "\n">>
TumblrHeader ==
    <<"=", "=", "=", " ", "T", "U", "M", "B", "L", "R", " ", "S", "N", "I", "P", "P",
      "E", "T", "S", " ", "=", "=", "=", "\n">>

append_section_M(parts, header, data) ==
    IF data # <<>> THEN Append(parts, header \o data) ELSE parts

\* lines 65-66: if data.strip(): combined_parts.append(header + data)
append_section(parts, header, data) ==
    IF strip(data) # <<>> THEN Append(parts, header \o data) ELSE parts

\* lines 63-75
combined_parts(r, y, o, t) ==
    append_section(
        append_section(
            append_section(
                append_section(<<>>, RedditHeader, r),
                YoutubeHeader, y),
            OfficialHeader, o),
        TumblrHeader, t)

combine_M(r, y, o, t) == join(<<"\n">>, combined_parts(r, y, o, t))

\* line 77: "\n\n".join(combined_parts)
combine(r, y, o, t) == join(BlankLine, combined_parts(r, y, o, t))

no_data_M(combined) == FALSE

\* line 79: if not combined.strip()
no_data(combined) == strip(combined) = <<>>

-----------------------------------------------------------------------------
(* The run of a script.  entry is "send_script" (python send_swift_scroll.py), *)
(* "send_import" (import send_swift_scroll) or "composer_script".          *)

Entries == {"send_script", "send_import", "composer_script"}

\* what the chat completion returns, before compose_email_from_data strips it
GeneratedTexts ==
    {<<"S", "u", "b", "j", "e", "c", "t", ":", " ", "H", "i", "\n", "y", "o", "\n">>,
     <<" ", "y", "o", "\n", "b", "y", "e">>}

NothingCollected ==
    /\ reddit_data = <<>>
    /\ youtube_data = <<>>
    /\ official_data = <<>>
    /\ tumblr_data = <<>>

NothingGenerated ==
    /\ ext = ExtInit
    /\ fandom_data = <<>>
    /\ compose_calls = <<>>
    /\ subject = <<>>
    /\ body = <<>>
    /\ send_calls = <<>>
    /\ printed = <<>>
    /\ raised = NoExc

NothingEmitted ==
    /\ source_text = <<>>
    /\ emitted = <<>>

NothingExtracted ==
    /\ markup = EmptyDoc
    /\ extracted = <<>>
    /\ NothingEmitted

Init ==
    /\ entry \in Entries
    /\ config \in Configs
    /\ env \in Envs
    /\ pc = "load"
    /\ NothingCollected
    /\ NothingGenerated
    /\ full_email_text = <<>>
    /\ bound = {}
    /\ NothingExtracted

\* an uncaught exception ends the run
Crash(e) ==
    /\ raised' = e
    /\ pc' = "crashed"

\* send_swift_scroll.py lines 42-45 (composer.py lines 73-76)
LoadConfig ==
    /\ pc = "load"
    /\ entry # "send_import"
    /\ pc' = "reddit"
    /\ UNCHANGED <<setupVars, ext, collectVars, fandom_data, compose_calls,
                   full_email_text, subject, body, bound, send_calls, printed, raised,
                   extractVars>>

\* send_swift_scroll.py line 85: the module is imported, __name__ is not "__main__"
SkipMain ==
    /\ pc = "load"
    /\ entry = "send_import"
    /\ pc' = "send"
    /\ UNCHANGED <<setupVars, ext, collectVars, fandom_data, compose_calls,
                   full_email_text, subject, body, bound, send_calls, printed, raised,
                   extractVars>>

\* send_swift_scroll.py lines 47-52 (composer.py lines 78-83)
CollectReddit ==
    /\ pc = "reddit"
    /\ \E answered \in 0..Len(config.subreddits) :
         LET r == collect_reddit_snippets(config.subreddits, DefaultMaxPosts, env, answered)
         IN  /\ ext' = [ext EXCEPT !.reddit = r.calls]
             /\ IF r.exc = NoExc
                THEN /\ reddit_data' = r.out
                     /\ pc' = "youtube"
                     /\ UNCHANGED raised
                ELSE /\ Crash(r.exc)
                     /\ UNCHANGED reddit_data
    /\ UNCHANGED <<setupVars, youtube_data, official_data, tumblr_data, fandom_data,
                   compose_calls, full_email_text, subject, body, bound, send_calls,
                   printed, extractVars>>

\* send_swift_scroll.py lines 54-55 (composer.py lines 85-86)
CollectYoutube ==
    /\ pc = "youtube"
    /\ \E search \in {"ok", "fail"}, items \in VideoLists :
         LET r == collect_youtube_snippets(config, env, search, items)
         IN  /\ ext' = [ext EXCEPT !.yt_search = r.search,
                                   !.videos = IF r.search = "ok" THEN items ELSE <<>>,
                                   !.yt_comments = r.calls]
             /\ IF r.exc = NoExc
                THEN /\ youtube_data' = r.out
                     /\ pc' = "site"
                     /\ UNCHANGED raised
                ELSE /\ Crash(r.exc)
                     /\ UNCHANGED youtube_data
    /\ UNCHANGED <<setupVars, reddit_data, official_data, tumblr_data, fandom_data,
                   compose_calls, full_email_text, subject, body, bound, send_calls,
                   printed, extractVars>>

\* send_swift_scroll.py lines 57-58 (composer.py lines 88-89)
CollectSite ==
    /\ pc = "site"
    /\ \E o1 \in FetchOutcomes, o2 \in FetchOutcomes :
         LET r == collect_official_site_snippets(config, o1, o2)
         IN  /\ ext' = [ext EXCEPT
                          !.taylor = IF Truthy(config.taylor_official_site)
                                     THEN o1 ELSE NotCalled,
                          !.showgirl = IF Truthy(config.showgirl_site) /\ r.exc = NoExc
                                       THEN o2 ELSE NotCalled]
             /\ IF r.exc = NoExc
                THEN /\ official_data' = r.out
                     /\ pc' = "tumblr"
                     /\ UNCHANGED raised
                ELSE /\ Crash(r.exc)
                     /\ UNCHANGED official_data
    /\ UNCHANGED <<setupVars, reddit_data, youtube_data, tumblr_data, fandom_data,
                   compose_calls, full_email_text, subject, body, bound, send_calls,
                   printed, extractVars>>

\* send_swift_scroll.py lines 60-61 (composer.py lines 91-92)
CollectTumblr ==
    /\ pc = "tumblr"
    /\ \E o \in FetchOutcomes :
         LET r == collect_tumblr_snippets(config, o)
         IN  /\ ext' = [ext EXCEPT !.tumblr = IF Truthy(config.tumblr_url)
                                              THEN o ELSE NotCalled]
             /\ IF r.exc = NoExc
                THEN /\ tumblr_data' = r.out
                     /\ pc' = "combine"
                     /\ UNCHANGED raised
                ELSE /\ Crash(r.exc)
                     /\ UNCHANGED tumblr_data
    /\ UNCHANGED <<setupVars, reddit_data, youtube_data, official_data, fandom_data,
                   compose_calls, full_email_text, subject, body, bound, send_calls,
                   printed, extractVars>>

\* send_swift_scroll.py lines 63-82 and line 87
Combine ==
    /\ pc = "combine"
    /\ entry = "send_script"
    /\ LET combined == combine(reddit_data, youtube_data, official_data, tumblr_data)
       IN  IF no_data(combined)
           THEN /\ Crash(Exc("ValueError", "build_fandom_data"))
                /\ UNCHANGED <<fandom_data, bound>>
           ELSE /\ fandom_data' = combined
                /\ bound' = bound \cup {"fandom_data"}
                /\ pc' = "compose"
                /\ UNCHANGED raised
    /\ UNCHANGED <<setupVars, ext, collectVars, compose_calls, full_email_text, subject,
                   body, send_calls, printed, extractVars>>

\* composer.py lines 95-113
CombineComposer ==
    /\ pc = "combine"
    /\ entry = "composer_script"
    /\ LET combined == combine(reddit_data, youtube_data, official_data, tumblr_data)
       IN  IF no_data(combined)
           THEN /\ printed' = Append(printed, "composer:112")
                /\ pc' = "exit1"
                /\ UNCHANGED <<fandom_data, bound>>
           ELSE /\ fandom_data' = combined
                /\ bound' = bound \cup {"combined_data"}
                /\ pc' = "compose"
                /\ UNCHANGED printed
    /\ UNCHANGED <<setupVars, ext, collectVars, compose_calls, full_email_text, subject,
                   body, send_calls, raised, extractVars>>

\* send_swift_scroll.py lines 89-90 (composer.py lines 115-116) with
\* composer.py compose_email_from_data, lines 35-62
Compose ==
    /\ pc = "compose"
    /\ compose_calls' = Append(compose_calls, fandom_data)
    /\ \/ /\ ext' = [ext EXCEPT !.openai = "fail"]
          /\ Crash(Exc("Exception", "compose_email_from_data"))
          /\ UNCHANGED <<full_email_text, bound>>
       \/ \E message \in GeneratedTexts :
            /\ ext' = [ext EXCEPT !.openai = "ok"]
            /\ full_email_text' = strip(message)
            /\ bound' = bound \cup {"full_email_text"}
            /\ pc' = IF entry = "send_script" THEN "split" ELSE "show"
            /\ UNCHANGED raised
    /\ UNCHANGED <<setupVars, collectVars, fandom_data, subject, body, send_calls,
                   printed, extractVars>>

\* send_swift_scroll.py line 93
Split ==
    /\ pc = "split"
    /\ subject' = split_subject_and_body(full_email_text)[1]
    /\ body' = split_subject_and_body(full_email_text)[2]
    /\ bound' = bound \cup {"subject", "body"}
    /\ pc' = "show"
    /\ UNCHANGED <<setupVars, ext, collectVars, fandom_data, compose_calls,
                   full_email_text, send_calls, printed, raised, extractVars>>

\* send_swift_scroll.py lines 95-100 (composer.py lines 118-120)
Show ==
    /\ pc = "show"
    /\ IF entry = "send_script"
       THEN /\ printed' = Append(printed, "send:95-100")
            /\ pc' = "send"
       ELSE /\ printed' = Append(printed, "composer:118-120")
            /\ pc' = "done"
    /\ UNCHANGED <<setupVars, ext, collectVars, fandom_data, compose_calls,
                   full_email_text, subject, body, bound, send_calls, raised,
                   extractVars>>

\* send_swift_scroll.py line 101, a statement of the module, not of the
\* "if __name__" block: its arguments are evaluated first
Send ==
    /\ pc = "send"
    /\ IF ~({"subject", "body"} \subseteq bound)
       THEN /\ Crash(Exc("NameError", "send_swift_scroll.py:101"))
            /\ UNCHANGED <<ext, send_calls>>
       ELSE /\ send_calls' = Append(send_calls, <<subject, body>>)
            /\ \/ /\ ext' = [ext EXCEPT !.gmail = "ok"]
                  /\ pc' = "announce"
                  /\ UNCHANGED raised
               \/ /\ ext' = [ext EXCEPT !.gmail = "fail"]
                  /\ Crash(Exc("Exception", "send_swift_scroll_via_gmail"))
    /\ UNCHANGED <<setupVars, collectVars, fandom_data, compose_calls, full_email_text,
                   subject, body, bound, printed, extractVars>>

\* send_swift_scroll.py line 102
Announce ==
    /\ pc = "announce"
    /\ printed' = Append(printed, "send:102")
    /\ pc' = "done"
    /\ UNCHANGED <<setupVars, ext, collectVars, fandom_data, compose_calls,
                   full_email_text, subject, body, bound, send_calls, raised,
                   extractVars>>

Next ==
    \/ LoadConfig
    \/ SkipMain
    \/ CollectReddit
    \/ CollectYoutube
    \/ CollectSite
    \/ CollectTumblr
    \/ Combine
    \/ CombineComposer
    \/ Compose
    \/ Split
    \/ Show
    \/ Send
    \/ Announce

Spec == Init /\ [][Next]_vars

-----------------------------------------------------------------------------
(* build_fandom_data's merge on its own: the four collector outputs range  *)
(* over short texts, blank ones included.                                  *)

MaxOutLen == 1      \* length of the collector outputs enumerated in full

OutputAlphabet == {" ", "\n", "a"}

CollectorOutputs ==
    SeqsUpTo(OutputAlphabet, MaxOutLen)
    \cup {<<" ", "a", "\n">>, <<"a", "\n", "\n", "b">>, <<" ", "\n">>}

NothingConfigured ==
    [subreddits |-> <<>>, youtube_channel_id |-> Absent, taylor_official_site |-> Absent,
     showgirl_site |-> Absent, tumblr_url |-> Absent]

AllCredentials == [reddit_credentials |-> TRUE, youtube_api_key |-> TRUE]

InitAgg ==
    /\ entry \in {"send_script", "composer_script"}
    /\ config = NothingConfigured
    /\ env = AllCredentials
    /\ pc = "combine"
    /\ reddit_data \in CollectorOutputs
    /\ youtube_data \in CollectorOutputs
    /\ official_data \in CollectorOutputs
    /\ tumblr_data \in CollectorOutputs
    /\ NothingGenerated
    /\ full_email_text = <<>>
    /\ bound = {}
    /\ NothingExtracted

NextAgg ==
    \/ Combine
    \/ CombineComposer

SpecAgg == InitAgg /\ [][NextAgg]_vars

-----------------------------------------------------------------------------
(* split_subject_and_body on its own: the generated text ranges over texts *)
(* of a few lines, with and without marker lines, line ends "\n" and       *)
(* "\r\n", and white space around the text.                                *)

MaxLines == 3       \* lines of the generated texts enumerated

LineSet ==
    {<<>>,
     <<"a", " ", "b">>,
     <<"s", "u", "b", "j", "e", "c", "t", ":">>,
     <<"S", "u", "b", "j", "e", "c", "t", ":", " ", "H", "i", " ">>,
     <<"S", "U", "B", "J", "E", "C", "T", ":", "x", ":", "y">>,
     <<"r", "e", " ", "s", "u", "b", "j", "e", "c", "t", ":", " ", "z">>,
     <<"s", "u", "b", "j", "e", "c", "t">>}

LineEnds == {<<"\n">>, <<"\r", "\n">>}
Leading == {<<>>, <<" ">>, <<"\n">>}
Trailing == {<<>>, <<" ", "\n">>}

RECURSIVE TextsOfLines(_)
TextsOfLines(n) ==
    IF n = 0 THEN {<<>>}
    ELSE IF n = 1 THEN LineSet
    ELSE {t \o e \o l : t \in TextsOfLines(n - 1), e \in LineEnds, l \in LineSet}

SplitInputs ==
    {a \o t \o z : a \in Leading, z \in Trailing,
                   t \in UNION {TextsOfLines(n) : n \in 0..MaxLines}}

InitSplit ==
    /\ entry = "send_script"
    /\ config = NothingConfigured
    /\ env = AllCredentials
    /\ pc = "split"
    /\ NothingCollected
    /\ NothingGenerated
    /\ full_email_text \in SplitInputs
    /\ bound = {"fandom_data", "full_email_text"}
    /\ NothingExtracted

NextSplit == Split

SpecSplit == InitSplit /\ [][NextSplit]_vars

-----------------------------------------------------------------------------
(* extract_snippets_from_html on its own: the document ranges over numbers *)
(* of containers, paragraphs and headings, the first of each kind          *)
(* qualifying or one character too short.                                  *)

MaxContainers == 31
MaxParagraphs == 41
MaxHeadings == 2

\* n texts of min characters each, the first one a character short when short = 1
DocTexts(ch, n, min, short) ==
    [k \in 1..n |-> Text(ch, k, IF k = short THEN min - 1 ELSE min)]

\* counts of headings, paragraphs and containers of a page, and which of the
\* paragraphs and containers opens with a short text: a page with headings (the
\* official site) has no post containers, a page with post containers (a tag
\* page) has no headings
DocShapes ==
    {s \in (0..MaxHeadings) \X (0..MaxParagraphs) \X (0..1)
              \X (0..MaxContainers) \X (0..1) : s[1] = 0 \/ s[4] = 0}

Docs ==
    {[headings |-> DocTexts("h", s[1], SiteHeadingMin + 1, 0),
      paragraphs |-> DocTexts("p", s[2], TumblrMinLen, s[3]),
      containers |-> DocTexts("c", s[4], TumblrMinLen, s[5])] : s \in DocShapes}

InitExtract ==
    /\ entry = "send_script"
    /\ config = NothingConfigured
    /\ env = AllCredentials
    /\ pc = "extract"
    /\ NothingCollected
    /\ NothingGenerated
    /\ full_email_text = <<>>
    /\ bound = {}
    /\ markup \in Docs
    /\ extracted = <<>>
    /\ NothingEmitted

\* collector_tumblr.py line 72: extract_snippets_from_html(html, "TUMBLR")
TumblrExtract ==
    /\ pc = "extract"
    /\ extracted' = tumblr_extract_snippets_from_html(markup, TumblrLabel)
    /\ pc' = "tumblr_extracted"
    /\ UNCHANGED <<setupVars, ext, collectVars, fandom_data, compose_calls,
                   full_email_text, subject, body, bound, send_calls, printed, raised,
                   markup, truncVars>>

\* collector_site.py line 66: extract_snippets_from_html(html, "OFFICIAL SITE")
SiteExtract ==
    /\ pc = "extract"
    /\ extracted' = site_extract_snippets_from_html(markup, OfficialLabel)
    /\ pc' = "site_extracted"
    /\ UNCHANGED <<setupVars, ext, collectVars, fandom_data, compose_calls,
                   full_email_text, subject, body, bound, send_calls, printed, raised,
                   markup, truncVars>>

NextExtract ==
    \/ TumblrExtract
    \/ SiteExtract

SpecExtract == InitExtract /\ [][NextExtract]_vars

-----------------------------------------------------------------------------
(* The truncated fields on their own: each collector's code applied to one *)
(* source text whose length lies around a cap.                             *)

\* how far below and above a cap the lengths of the source texts go
MaxOver == 2

FieldCaps == {SiteHeadingCap, SiteTextCap, TumblrPostCap, TumblrTextCap, RedditBodyCap,
              YoutubeCommentCap, YoutubeDescriptionCap}

\* n characters that differ from their neighbours, between whitespace the source
\* left around them when padded
LongText(n, padded) ==
    (IF padded THEN <<" ">> ELSE <<>>)
    \o [j \in 1..n |-> ToString(j % 10)]
    \o (IF padded THEN <<"\n">> ELSE <<>>)

SourceTexts ==
    {LongText(cap + d, padded) :
        cap \in FieldCaps, d \in (0 - MaxOver)..MaxOver, padded \in BOOLEAN}

InitTruncate ==
    /\ entry = "send_script"
    /\ config = NothingConfigured
    /\ env = AllCredentials
    /\ pc = "truncate"
    /\ NothingCollected
    /\ NothingGenerated
    /\ full_email_text = <<>>
    /\ bound = {}
    /\ markup = EmptyDoc
    /\ extracted = <<>>
    /\ source_text \in SourceTexts
    /\ emitted = <<>>

\* collector_site.py lines 29-47 on a page whose heading and paragraph hold
\* source_text
TruncateSite ==
    /\ pc = "truncate"
    /\ emitted' = site_extract_snippets_from_html(
                      [headings |-> <<source_text>>, paragraphs |-> <<source_text>>,
                       containers |-> <<>>], OfficialLabel)
    /\ pc' = "site_emitted"
    /\ UNCHANGED <<setupVars, ext, collectVars, fandom_data, compose_calls,
                   full_email_text, subject, body, bound, send_calls, printed, raised,
                   markup, extracted, source_text>>

\* collector_tumblr.py lines 32-52 on a page whose post container and paragraph
\* hold source_text
TruncateTumblr ==
    /\ pc = "truncate"
    /\ emitted' = tumblr_extract_snippets_from_html(
                      [headings |-> <<>>, paragraphs |-> <<source_text>>,
                       containers |-> <<source_text>>], TumblrLabel)
    /\ pc' = "tumblr_emitted"
    /\ UNCHANGED <<setupVars, ext, collectVars, fandom_data, compose_calls,
                   full_email_text, subject, body, bound, send_calls, printed, raised,
                   markup, extracted, source_text>>

\* collector_reddit.py lines 64-85 on a post whose selftext and first comment
\* hold source_text
TruncateReddit ==
    /\ pc = "truncate"
    /\ emitted' = reddit_post_loop(SubName(1),
                      <<[title |-> <<"T", "1">>, selftext |-> source_text,
                         comments |-> <<source_text>>]>>,
                      1, MaxCommentsPerPost, <<>>)
    /\ pc' = "reddit_emitted"
    /\ UNCHANGED <<setupVars, ext, collectVars, fandom_data, compose_calls,
                   full_email_text, subject, body, bound, send_calls, printed, raised,
                   markup, extracted, source_text>>

\* collector_youtube.py lines 68-76 and 107-116 on a video whose description and
\* first comment hold source_text
TruncateYoutube ==
    /\ pc = "truncate"
    /\ emitted' = <<video_snippet(<<"v", "1">>, source_text)>>
                   \o comment_snippets(
                         IF strip(source_text) # <<>> THEN <<comment_text(source_text)>>
                         ELSE <<>>)
    /\ pc' = "youtube_emitted"
    /\ UNCHANGED <<setupVars, ext, collectVars, fandom_data, compose_calls,
                   full_email_text, subject, body, bound, send_calls, printed, raised,
                   markup, extracted, source_text>>

NextTruncate ==
    \/ TruncateSite
    \/ TruncateTumblr
    \/ TruncateReddit
    \/ TruncateYoutube

SpecTruncate == InitTruncate /\ [][NextTruncate]_vars

-----------------------------------------------------------------------------
(* Vocabulary of the properties.                                           *)

Blank(s) == \A k \in 1..Len(s) : s[k] \in Whitespace

\* sub occurs in s
Contains(s, sub) ==
    \E k \in 0..(Len(s) - Len(sub)) : SubSeq(s, k + 1, k + Len(sub)) = sub

\* where the blank lines that separate the snippets of a batch begin
BlankLineAt(s) ==
    {k \in 1..(Len(s) - 1) :
        /\ s[k] = "\n"
        /\ s[k + 1] = "\n"
        /\ LET before == {j \in 1..(k - 1) : \A m \in j..(k - 1) : s[m] = "\n"}
           IN  Cardinality(before) % 2 = 0}

\* the snippets of a batch: the pieces between blank lines
SnippetsOf(data) ==
    IF data = <<>> THEN <<>>
    ELSE LET seps == BlankLineAt(data)
             starts == {1} \cup {k + 2 : k \in seps}
             start(i) == CHOOSE a \in starts : Cardinality({b \in starts : b < a}) = i - 1
             stop(a) == IF \E k \in seps : k >= a
                        THEN (CHOOSE k \in seps : k >= a /\ \A m \in seps : m >= a => k <= m) - 1
                        ELSE Len(data)
         IN  [i \in 1..Cardinality(starts) |-> SubSeq(data, start(i), stop(start(i)))]

CountWith(snips, prefix) ==
    Cardinality({k \in 1..Len(snips) : startswith(snips[k], prefix)})

RedditSites == {"get_reddit_client", "subreddit.top"}
YoutubeSites == {"get_youtube_api_key", "fetch_channel_videos", "fetch_video_comments"}
PageSites == {"fetch_page"}

\* how far the run got: each collector is called once the one before it returned
RedditRan == entry # "send_import" /\ pc \notin {"load", "reddit"}
RedditReturned == RedditRan /\ raised.at \notin RedditSites
YoutubeRan == RedditReturned /\ pc # "youtube"
YoutubeReturned == YoutubeRan /\ raised.at \notin YoutubeSites
SiteRan == YoutubeReturned /\ pc # "site"
SiteReturned == SiteRan /\ raised.at \notin PageSites
TumblrRan == SiteReturned /\ pc # "tumblr"
TumblrReturned == TumblrRan /\ raised.at \notin PageSites
Combined == TumblrReturned /\ pc # "combine"

RedditCallFailed == \E k \in 1..Len(ext.reddit) : ext.reddit[k] = "fail"
YoutubeCallFailed ==
    \/ ext.yt_search = "fail"
    \/ \E k \in 1..Len(ext.yt_comments) : ext.yt_comments[k] = "raise"
SiteCallFailed == FetchFailed(ext.taylor) \/ FetchFailed(ext.showgirl)
TumblrCallFailed == FetchFailed(ext.tumblr)

NoDataSignalled ==
    \/ pc = "crashed" /\ raised = Exc("ValueError", "build_fandom_data")
    \/ pc = "exit1"

-----------------------------------------------------------------------------
\* C1: whenever a collector's external call fails, the failure stays inside that
\* collector (it returns an error snippet or an empty batch), the collectors
\* after it are still called, and the run gets as far as assembling the corpus.
C1_FailureContained ==
    /\ RedditCallFailed => RedditReturned /\ (pc # "youtube" => YoutubeRan)
    /\ YoutubeCallFailed => YoutubeReturned /\ (pc # "site" => SiteRan)
    /\ SiteCallFailed => SiteReturned /\ (pc # "tumblr" => TumblrRan)
    /\ TumblrCallFailed => TumblrReturned
    /\ (RedditCallFailed \/ YoutubeCallFailed \/ SiteCallFailed \/ TumblrCallFailed)
         => pc # "crashed" \/ raised.at \notin (RedditSites \cup YoutubeSites \cup PageSites)

\* C3: compose_email_from_data is never called with a corpus that is empty or
\* blank; a run in which every collector returned a blank batch stops at the
\* no-data check, before generation, splitting and delivery.
C3_NoGenerationOnEmpty ==
    /\ \A k \in 1..Len(compose_calls) : ~Blank(compose_calls[k])
    /\ (Combined /\ Blank(reddit_data) /\ Blank(youtube_data)
          /\ Blank(official_data) /\ Blank(tumblr_data))
         => /\ NoDataSignalled
            /\ compose_calls = <<>>
            /\ "subject" \notin bound
            /\ send_calls = <<>>

C3_Witness ==
    /\ entry = "send_script"
    /\ pc = "crashed"
    /\ raised = Exc("ValueError", "build_fandom_data")
    /\ compose_calls = <<>>

\* C7: a configured page or blog URL whose fetch fails leaves exactly one snippet
\* under its label, an ERROR snippet naming the URL, and no exception; the other
\* URL of the page collector is still fetched and extracted.
C7_FetchFailureBecomesSnippet ==
    LET official == SnippetsOf(official_data)
        HasError(label, url) ==
            \E k \in 1..Len(official) :
                /\ startswith(official[k], <<"[">> \o label \o ErrorTag)
                /\ Contains(official[k], url)
    IN  /\ (SiteRan /\ FetchFailed(ext.taylor))
             => /\ SiteReturned
                /\ CountWith(official, <<"[">> \o OfficialLabel) = 1
                /\ HasError(OfficialLabel, TaylorUrl)
                /\ Truthy(config.showgirl_site) => ext.showgirl # NotCalled
                /\ ext.showgirl = "ok"
                     => CountWith(official, <<"[">> \o ShowgirlLabel \o HeadingTag) = 1
        /\ (SiteRan /\ FetchFailed(ext.showgirl))
             => /\ SiteReturned
                /\ CountWith(official, <<"[">> \o ShowgirlLabel) = 1
                /\ HasError(ShowgirlLabel, ShowgirlUrl)
                /\ ext.taylor = "ok"
                     => CountWith(official, <<"[">> \o OfficialLabel \o HeadingTag) = 1
        /\ (TumblrRan /\ FetchFailed(ext.tumblr))
             => /\ TumblrReturned
                /\ Len(SnippetsOf(tumblr_data)) = 1
                /\ startswith(tumblr_data, <<"[">> \o TumblrLabel \o ErrorTag)
                /\ Contains(tumblr_data, TumblrUrl)

C7_Witness ==
    /\ pc = "combine"
    /\ ext.taylor = "timeout"
    /\ ext.showgirl = "ok"
    /\ ext.tumblr = "http_error"

\* C8: a video whose comment request fails, by a status other than 200 or by the
\* request raising, contributes its YOUTUBE VIDEO snippet and no comment; the
\* collector does not raise and every video with an id has its snippet.
C8_CommentFailureIsolated ==
    (YoutubeRan /\ \E i \in 1..Len(ext.videos) : ext.videos[i] \in {"disabled", "raise"})
      => /\ YoutubeReturned
         /\ CountWith(SnippetsOf(youtube_data),
                      <<"[", "Y", "O", "U", "T", "U", "B", "E", " ", "V", "I", "D", "E",
                        "O", "]", " ">>)
              = Cardinality({i \in 1..Len(ext.videos) : ext.videos[i] # "noid"})
         /\ CountWith(SnippetsOf(youtube_data),
                      <<"[", "Y", "O", "U", "T", "U", "B", "E", " ", "C", "O", "M", "M",
                        "E", "N", "T", "]", " ">>)
              = Cardinality({i \in 1..Len(ext.videos) : ext.videos[i] = "ok"})

\* C9: a collector whose target is not configured returns an empty batch, raises
\* nothing and calls nothing outside, whether or not the credentials are set.
C9_UnconfiguredIsSilent ==
    /\ (RedditRan /\ config.subreddits = <<>>)
         => RedditReturned /\ reddit_data = <<>> /\ ext.reddit = <<>>
    /\ (YoutubeRan /\ ~Truthy(config.youtube_channel_id))
         => YoutubeReturned /\ youtube_data = <<>> /\ ext.yt_search = NotCalled
    /\ (SiteRan /\ ~Truthy(config.taylor_official_site) /\ ~Truthy(config.showgirl_site))
         => /\ SiteReturned
            /\ official_data = <<>>
            /\ ext.taylor = NotCalled
            /\ ext.showgirl = NotCalled
    /\ (TumblrRan /\ ~Truthy(config.tumblr_url))
         => TumblrReturned /\ tumblr_data = <<>> /\ ext.tumblr = NotCalled

-----------------------------------------------------------------------------
(* Properties of the merge, checked under SpecAgg.                         *)

AllBlank ==
    /\ Blank(reddit_data)
    /\ Blank(youtube_data)
    /\ Blank(official_data)
    /\ Blank(tumblr_data)

\* C2: the no-data failure is signalled exactly when every collector's output is
\* blank; with one output that is not blank a corpus that is not blank is
\* returned and the failure is not signalled.
C2_NoDataIffAllBlank ==
    pc # "combine"
      => /\ NoDataSignalled <=> AllBlank
         /\ ~AllBlank => pc = "compose" /\ ~Blank(fandom_data)

C2_Witness ==
    /\ NoDataSignalled
    /\ reddit_data = <<" ">>
    /\ tumblr_data = <<"\n">>

SectionOf(s) == s.header \o s.data
HasData(s) == ~Blank(s.data)

\* the sections the corpus is to consist of, in the order the collectors are called
ExpectedSections ==
    SelectSeq(<<[header |-> RedditHeader, data |-> reddit_data],
                [header |-> YoutubeHeader, data |-> youtube_data],
                [header |-> OfficialHeader, data |-> official_data],
                [header |-> TumblrHeader, data |-> tumblr_data]>>,
              HasData)

\* C4: a returned corpus is one section per collector whose output is not blank,
\* each the collector's header line followed by its output, in the order forum,
\* video, page, blog, with a blank line between sections.
C4_CorpusSections ==
    pc = "compose"
      => fandom_data =
           join(BlankLine, [k \in 1..Len(ExpectedSections) |-> SectionOf(ExpectedSections[k])])

C4_Witness ==
    /\ pc = "compose"
    /\ reddit_data = <<" ">>
    /\ ~Blank(youtube_data)
    /\ official_data = <<>>
    /\ ~Blank(tumblr_data)

-----------------------------------------------------------------------------
(* Properties of split_subject_and_body, checked under SpecSplit.          *)

RawLines == splitlines(full_email_text)
TrimmedLines == splitlines(strip(full_email_text))

IsMarkerLine(line) ==
    /\ Len(line) >= Len(SubjectMarker)
    /\ \A k \in 1..Len(SubjectMarker) : lower_char(line[k]) = SubjectMarker[k]

HasMarkerLine(lines) == \E i \in 1..Len(lines) : IsMarkerLine(lines[i])

FirstMarkerLine(lines) ==
    CHOOSE i \in 1..Len(lines) :
        IsMarkerLine(lines[i]) /\ \A j \in 1..(i - 1) : ~IsMarkerLine(lines[j])

AfterFirstColon(line) ==
    LET k == CHOOSE k \in 1..Len(line) :
                 line[k] = ":" /\ \A j \in 1..(k - 1) : line[j] # ":"
    IN  SubSeq(line, k + 1, Len(line))

SplitDone == "subject" \in bound

\* the subject and body the claim describes, for the marker line found in lines
SplitAtFirstMarker(lines) ==
    LET i == FirstMarkerLine(lines)
    IN  /\ subject = strip(AfterFirstColon(lines[i]))
        /\ body = strip(join(<<"\n">>, SubSeq(lines, i + 1, Len(lines))))

\* C5 as stated: the first line of the generated text that begins with the
\* marker gives the subject, the lines after it the body.
C5_FirstMarkerLineOfText ==
    (SplitDone /\ HasMarkerLine(RawLines)) => SplitAtFirstMarker(RawLines)

\* C5: the first line of the generated text, trimmed of leading and trailing
\* white space, that begins with the marker (any case) gives the subject: what
\* follows its first colon, trimmed; the lines after it, joined with newlines
\* and trimmed, are the body.
C5_FirstMarkerLineOfTrimmedText ==
    (SplitDone /\ HasMarkerLine(TrimmedLines)) => SplitAtFirstMarker(TrimmedLines)

C5_Witness ==
    /\ SplitDone
    /\ Len(TrimmedLines) = 3
    /\ ~IsMarkerLine(TrimmedLines[1])
    /\ IsMarkerLine(TrimmedLines[2])
    /\ IsMarkerLine(TrimmedLines[3])
    /\ subject = <<"x", ":", "y">>

\* C6 as stated: with no line of the generated text beginning with the marker,
\* the subject is the fallback and the body is the trimmed input.
C6_NoMarkerBodyIsTrimmedText ==
    (SplitDone /\ ~HasMarkerLine(RawLines))
      => /\ subject = DefaultSubject
         /\ body = strip(full_email_text)

OnlyNewlineBreaks(text) == \A k \in 1..Len(text) : text[k] \in LineBreaks => text[k] = "\n"

\* C6: with no line of the trimmed generated text beginning with the marker, the
\* subject is the fallback and the body is the lines of the trimmed text, all of
\* them and in order, joined with newlines: the trimmed text itself when "\n" is
\* its only line break.
C6_NoMarkerBodyIsTrimmedLines ==
    (SplitDone /\ ~HasMarkerLine(TrimmedLines))
      => /\ subject = DefaultSubject
         /\ body = join(<<"\n">>, TrimmedLines)
         /\ splitlines(body) = TrimmedLines
         /\ OnlyNewlineBreaks(strip(full_email_text)) => body = strip(full_email_text)

C6_Witness ==
    /\ SplitDone
    /\ ~HasMarkerLine(TrimmedLines)
    /\ Len(TrimmedLines) = 3
    /\ ~OnlyNewlineBreaks(strip(full_email_text))
    /\ subject = DefaultSubject

-----------------------------------------------------------------------------
(* Properties of collector_tumblr's extract_snippets_from_html, checked    *)
(* under SpecExtract.                                                      *)

Qualifies(text) == Len(text) >= TumblrMinLen
QualifyingParagraphs == SelectSeq(markup.paragraphs, Qualifies)

IsPost(snippet) == startswith(snippet, <<"[">> \o TumblrLabel \o PostTag)
IsText(snippet) == startswith(snippet, <<"[">> \o TumblrLabel \o TextTag)

ThreeContainersFifteenParagraphs ==
    /\ pc = "tumblr_extracted"
    /\ Len(markup.containers) = 3
    /\ \A k \in 1..3 : Qualifies(markup.containers[k])
    /\ Len(QualifyingParagraphs) = 15

\* C10 as stated: 3 containers and 15 qualifying paragraphs give the 3 POST
\* snippets only.
C10_ContainersOnly ==
    ThreeContainersFifteenParagraphs
      => /\ Len(extracted) = 3
         /\ \A k \in 1..Len(extracted) : IsPost(extracted[k]) /\ ~IsText(extracted[k])

\* C10: 3 containers and 15 qualifying paragraphs give the 3 POST snippets of the
\* containers followed by the 15 TEXT snippets of the paragraphs: 3 snippets are
\* fewer than 10, so the paragraph pass runs as well.
C10_ContainersThenParagraphs ==
    ThreeContainersFifteenParagraphs
      => /\ Len(extracted) = 18
         /\ \A k \in 1..3 :
              /\ IsPost(extracted[k])
              /\ SubSeq(extracted[k], Len(extracted[k]) - Len(markup.containers[k]) + 1,
                        Len(extracted[k])) = markup.containers[k]
         /\ \A k \in 1..15 :
              /\ IsText(extracted[3 + k])
              /\ SubSeq(extracted[3 + k],
                        Len(extracted[3 + k]) - Len(QualifyingParagraphs[k]) + 1,
                        Len(extracted[3 + k])) = QualifyingParagraphs[k]

C10_Witness ==
    /\ ThreeContainersFifteenParagraphs
    /\ Len(markup.paragraphs) = 16
    /\ Len(extracted) = 18

QualifyingContainers == SelectSeq(markup.containers, Qualifies)

\* the snippets the claims expect of the first n texts of a list, none of them
\* longer than its cap
SnippetsFor(kind, texts, n) ==
    [k \in 1..n |-> tagged(TumblrLabel, kind, texts[k])]

AtMost(n, cap) == IF n > cap THEN cap ELSE n

\* C11 as stated: after the tag-page extraction, when the container pass left
\* fewer than 10 snippets the result is the POST snippets of all qualifying
\* containers in document order followed by the TEXT snippets of the qualifying
\* paragraphs in document order (of the first 30 of them, the paragraph cap of
\* C13); when it left 10 or more the result holds no TEXT snippet.
C11_AdditiveFallback ==
    pc = "tumblr_extracted"
      => IF Len(QualifyingContainers) < TumblrEnough
         THEN extracted =
                SnippetsFor(PostTag, QualifyingContainers, Len(QualifyingContainers))
                  \o SnippetsFor(TextTag, QualifyingParagraphs,
                                 AtMost(Len(QualifyingParagraphs), TumblrStop))
         ELSE \A k \in 1..Len(extracted) : ~IsText(extracted[k])

SiteQualifies(text) == Len(text) >= SiteMinLen
SiteQualifyingParagraphs == SelectSeq(markup.paragraphs, SiteQualifies)

IsSiteText(snippet) == startswith(snippet, <<"[">> \o OfficialLabel \o TextTag)

SiteTextCount == Cardinality({k \in 1..Len(extracted) : IsSiteText(extracted[k])})

\* C12 as stated: after the official-site extraction the number of paragraph
\* TEXT snippets is the smaller of 40 and the number of qualifying paragraphs of
\* the document, whatever the number of heading snippets before them.
C12_ParagraphCapIgnoresHeadings ==
    pc = "site_extracted"
      => SiteTextCount = AtMost(Len(SiteQualifyingParagraphs), SiteStop)

PostCount == Cardinality({k \in 1..Len(extracted) : IsPost(extracted[k])})
TextCount == Cardinality({k \in 1..Len(extracted) : IsText(extracted[k])})

\* C13 as stated: the tag-page extraction returns at most 30 container POST
\* snippets and, when the paragraph fallback runs, at most 30 paragraph TEXT
\* snippets.
C13_ThirtyOfEach ==
    pc = "tumblr_extracted" => PostCount <= TumblrStop /\ TextCount <= TumblrStop

\* the truncated fields: the state in which the field was emitted, its place in
\* the emitted list, what the snippet puts before it, and its cap
TruncatedFields ==
    {[at |-> "site_emitted", k |-> 1, cap |-> SiteHeadingCap,
      before |-> <<"[">> \o OfficialLabel \o HeadingTag],
     [at |-> "site_emitted", k |-> 2, cap |-> SiteTextCap,
      before |-> <<"[">> \o OfficialLabel \o TextTag],
     [at |-> "tumblr_emitted", k |-> 1, cap |-> TumblrPostCap,
      before |-> <<"[">> \o TumblrLabel \o PostTag],
     [at |-> "tumblr_emitted", k |-> 2, cap |-> TumblrTextCap,
      before |-> <<"[">> \o TumblrLabel \o TextTag],
     [at |-> "reddit_emitted", k |-> 1, cap |-> RedditBodyCap,
      before |-> <<"[", "P", "O", "S", "T", " ", "i", "n", " ", "r", "/", "s", "1", "]",
                   " ", "T", "1", "\n">>],
     [at |-> "reddit_emitted", k |-> 2, cap |-> RedditBodyCap,
      before |-> <<"[", "C", "O", "M", "M", "E", "N", "T", " ", "i", "n", " ", "r", "/",
                   "s", "1", "]", " ">>],
     [at |-> "youtube_emitted", k |-> 1, cap |-> YoutubeDescriptionCap,
      before |-> <<"[", "Y", "O", "U", "T", "U", "B", "E", " ", "V", "I", "D", "E", "O",
                   "]", " ", "v", "1", "\n">>],
     [at |-> "youtube_emitted", k |-> 2, cap |-> YoutubeCommentCap,
      before |-> <<"[", "Y", "O", "U", "T", "U", "B", "E", " ", "C", "O", "M", "M", "E",
                   "N", "T", "]", " ">>]}

\* source_text without the whitespace around it
StrippedSource ==
    SubSeq(source_text,
           CHOOSE a \in 1..Len(source_text) :
               /\ source_text[a] \notin Whitespace
               /\ \A j \in 1..(a - 1) : source_text[j] \in Whitespace,
           CHOOSE b \in 1..Len(source_text) :
               /\ source_text[b] \notin Whitespace
               /\ \A j \in (b + 1)..Len(source_text) : source_text[j] \in Whitespace)

\* the text of field f in the emitted list
EmittedText(f) ==
    SubSeq(emitted[f.k], Len(f.before) + 1, Len(emitted[f.k]))

\* C14: every truncated field (heading, cap 200; paragraph, forum post body,
\* forum comment and video comment, cap 400; container post and video
\* description, cap 500) whose stripped source text is longer than the cap is
\* emitted with length cap + 3, its first cap characters those of the source and
\* its last three the marker "..."; a source text of at most cap characters is
\* emitted unchanged.
C14_TruncationShape ==
    \A f \in TruncatedFields :
        pc = f.at
          => /\ Len(emitted) >= f.k
             /\ startswith(emitted[f.k], f.before)
             /\ IF Len(StrippedSource) > f.cap
                THEN /\ Len(EmittedText(f)) = f.cap + 3
                     /\ SubSeq(EmittedText(f), 1, f.cap) = SubSeq(StrippedSource, 1, f.cap)
                     /\ SubSeq(EmittedText(f), f.cap + 1, f.cap + 3) = <<".", ".", ".">>
                ELSE EmittedText(f) = StrippedSource

\* a padded description and comment of 501 characters were emitted, cut to 500
\* and to 400 characters and marked
C14_Witness ==
    /\ pc = "youtube_emitted"
    /\ Len(StrippedSource) = YoutubeDescriptionCap + 1
    /\ Len(source_text) > Len(StrippedSource)
    /\ Len(emitted) = 2
    /\ Len(emitted[1]) = 19 + YoutubeDescriptionCap + 3
    /\ Len(emitted[2]) = 18 + YoutubeCommentCap + 3

\* the statement of line 101 has executed: it called the delivery step, or it
\* raised while evaluating the call's arguments
DeliveryStatementExecuted ==
    send_calls # <<>> \/ raised.at = "send_swift_scroll.py:101"

DeliveryAnnounced == \E k \in 1..Len(printed) : printed[k] = "send:102"

CollectGenerateSplitExecuted ==
    Combined /\ compose_calls # <<>> /\ SplitDone

\* C15 as stated: however send_swift_scroll.py is started, as a script or by an
\* import, the delivery step is called at most once, only after the generation
\* step returned and the split produced (subject, body), and with that pair; and
\* no statement that performs or announces delivery executes in a run that did
\* not execute the collect, generate and split steps.
C15_DeliveryOnlyAfterSplit ==
    entry \in {"send_script", "send_import"}
      => /\ Len(send_calls) <= 1
         /\ \A k \in 1..Len(send_calls) :
              /\ ext.openai = "ok"
              /\ SplitDone
              /\ send_calls[k] = split_subject_and_body(full_email_text)
         /\ DeliveryStatementExecuted \/ DeliveryAnnounced
              => CollectGenerateSplitExecuted

====
